---- MODULE Spec2Model ----
(***************************************************************************)
(* Model of the paginated ingestion pipeline of fetch_market_metadata.py:  *)
(* fetch_market_metadata (cursor pagination, bounded retry, per-item       *)
(* classification, partial save on error) and save_results (three output   *)
(* files).  The provider's responses and the file system's faults are the  *)
(* environment's choices.                                                  *)
(***************************************************************************)
EXTENDS Integers, Sequences, FiniteSets, TLC

(* ---------------------------------------------------------------- bounds *)
MaxPages == 2
MaxItems == 2
MaxLimit == 2
MaxMarkets == 2
MaxLead == 2

(* ------------------------------------------------------ program constants *)
max_retries == 3
initial_retry_delay == 2
initial_cursor == "MA=="
end_cursor == "MA"

(* ------------------------------------------------------------ input data *)
None == "None"
Slugs == {"a", "b"}
Cursors == {end_cursor, "C1"}
RetryAfterHeaders == {None, "7", "http-date"}
RequestExceptions == {"ConnectionError", "HTTPError"}

\* a "tags" field that is absent (the field holds a list when present)
NoTags == <<None>>

Malformed ==
    [shape |-> "str", slug |-> None, condition_id |-> None, question |-> None,
     description |-> None, status |-> None, tags |-> NoTags]

\* Raw items of a page: structured records whose fields may be absent, and
\* one item that is not a structured record.
Items ==
    {[shape |-> "dict", slug |-> s, condition_id |-> c, question |-> q,
      description |-> None, status |-> None, tags |-> NoTags] :
        s \in Slugs \cup {None}, c \in {None, "0xc"}, q \in {None, "q1"}}
    \cup {Malformed}

\* Structured items with every combination of the optional fields that the
\* metadata is built from.
DetailedItems ==
    {[shape |-> "dict", slug |-> s, condition_id |-> "0xc", question |-> q,
      description |-> d, status |-> st, tags |-> t] :
        s \in Slugs, q \in {None, "q1", "q2"}, d \in {None, "d1"},
        st \in {None, "active", "closed"}, t \in {NoTags, <<>>, <<"t1">>}}

\* The items the provider sends: the question varies on one slug only.
RawItems ==
    {it \in Items : it.question = None \/ (it.slug = "a" /\ it.condition_id # None)}

\* Bodies of a 200 response: a falsy JSON value, a JSON array, or an object
\* with or without the "data" and "next_cursor" fields; `size` is the number
\* of items of "data", which arrive one by one as the loop reaches them.
Responses ==
    {[kind |-> "falsy", has_data |-> FALSE, size |-> 0, next_cursor |-> None],
     [kind |-> "list", has_data |-> FALSE, size |-> 0, next_cursor |-> None]}
    \cup {[kind |-> "dict", has_data |-> TRUE, size |-> n, next_cursor |-> c] :
            n \in 0..MaxItems, c \in Cursors \cup {None}}
    \cup {[kind |-> "dict", has_data |-> FALSE, size |-> 0, next_cursor |-> c] :
            c \in Cursors \cup {None}}

Faults ==
    {"none", "makedirs",
     "open_metadata", "write_metadata",
     "open_slugs", "write_slugs",
     "open_skipped", "write_skipped"}

(* ------------------------------------------------------------- variables *)
VARIABLES
    pc,               \* "idle", "fetching" (a page request is outstanding),
                      \* "processing" (in the loop over the page's items), "done"
    limit,
    next_cursor,
    count,
    markets_data,     \* slug -> metadata
    market_slugs,     \* sequence of slugs
    skipped_markets,  \* slug -> [reason, market_data]
    items_left,       \* items of current_markets the loop has not reached yet
    retry,            \* loop variable of the retry loop
    retry_delay,
    page,             \* number of the page being requested
    requests,         \* [page, n, cursor]: HTTP requests issued for the page last
                      \* requested, and the cursor the last of them carried
    waits,            \* sleeps of the retry loop in progress, or of the one that ended the run
    failed_page,      \* [page, last]: the page whose attempts ran out, and how the last one ended
    save_calls,       \* invocations of save_results in this run
    outcome,          \* [kind, cause]: how the run ended
    files,            \* the three output files
    files_at_start,   \* the output files when the run began
    input,            \* the argument of a function called on its own
    output,           \* [called, raised, value]: how that function ended
    phase,            \* fetch_market_data: "idle", "price", "trade", "done"
    market_index,     \* position of the loop over markets
    attempt,          \* loop variable of the lookup in progress
    price_history,    \* result of fetch_price_history for the current market
    enhanced_markets,
    lookup,           \* [index, kind, requests, sleeps]: the lookup in progress or last ended
    looked_up,        \* positions of the markets a lookup was issued for
    failed_lookups    \* <<position, kind>> of the lookups that failed on every attempt

vars ==
    <<pc, limit, next_cursor, count, markets_data, market_slugs,
      skipped_markets, items_left, retry, retry_delay, page, requests, waits, failed_page,
      save_calls, outcome, files, files_at_start, input, output,
      phase, market_index, attempt, price_history, enhanced_markets, lookup,
      looked_up, failed_lookups>>

\* the variables of a run of fetch_market_metadata
run_vars ==
    <<pc, limit, next_cursor, count, markets_data, market_slugs,
      skipped_markets, items_left, retry, retry_delay, page, requests, waits, failed_page,
      save_calls, outcome, files, files_at_start>>

\* the variables of a run of fetch_market_data
enrich_vars ==
    <<phase, market_index, attempt, price_history, enhanced_markets, lookup,
      looked_up, failed_lookups>>

call_vars == <<input, output, enrich_vars>>

NotCalled == [called |-> FALSE, raised |-> FALSE, value |-> None]
Returned(value) == [called |-> TRUE, raised |-> FALSE, value |-> value]
Raised(cause) == [called |-> TRUE, raised |-> TRUE, value |-> cause]

EmptyMap == [k \in {} |-> None]

AbsentFile == [state |-> "absent", content |-> EmptyMap]
PartialFile == [state |-> "partial", content |-> EmptyMap]
CompleteFile(c) == [state |-> "complete", content |-> c]

NoFiles ==
    [metadata_file |-> AbsentFile, slugs_file |-> AbsentFile, skipped_file |-> AbsentFile]

NoFailure == [page |-> 0, last |-> None]
NoOutcome == [kind |-> "none", cause |-> None]

(* ------------------------------------------------------------ dictionaries *)
\* an assignment that keeps the value of a key already present
Put_KeepFirst(f, k, v) ==
    [x \in DOMAIN f \cup {k} |-> IF x \in DOMAIN f THEN f[x] ELSE v]

\* d[k] = v
Put(f, k, v) == [x \in DOMAIN f \cup {k} |-> IF x = k THEN v ELSE f[x]]

\* dict.get(key, default) on a field that may be absent
Get(value, default) == IF value = None THEN default ELSE value

(* ------------------------------------------------------------ save_results *)
\* open(path, 'w') followed by json.dump: a failure to open leaves the file as
\* it was, a failure during the dump leaves a truncated file.
WriteFile(old, content, open_fault, write_fault, fault) ==
    IF fault = open_fault THEN [file |-> old, raised |-> TRUE]
    ELSE IF fault = write_fault THEN [file |-> PartialFile, raised |-> TRUE]
    ELSE [file |-> CompleteFile(content), raised |-> FALSE]

FormatSkipped(skipped) ==
    [slug \in DOMAIN skipped |-> [reason |-> Get(skipped[slug].reason, "Unknown reason")]]

SaveMetadata(md, fs, fault) ==
    IF DOMAIN md # {}
    THEN LET w == WriteFile(fs.metadata_file, md, "open_metadata", "write_metadata", fault)
         IN  [files |-> [fs EXCEPT !.metadata_file = w.file], raised |-> w.raised]
    ELSE [files |-> fs, raised |-> FALSE]

SaveSlugs(sl, fs, fault) ==
    IF sl # <<>>
    THEN LET w == WriteFile(fs.slugs_file, sl, "open_slugs", "write_slugs", fault)
         IN  [files |-> [fs EXCEPT !.slugs_file = w.file], raised |-> w.raised]
    ELSE [files |-> fs, raised |-> FALSE]

SaveSkipped(sk, fs, fault) ==
    IF DOMAIN sk # {}
    THEN LET w == WriteFile(fs.skipped_file, FormatSkipped(sk),
                            "open_skipped", "write_skipped", fault)
         IN  [files |-> [fs EXCEPT !.skipped_file = w.file], raised |-> w.raised]
    ELSE [files |-> fs, raised |-> FALSE]

\* save_results: makedirs, then the three writes in order; the first failure
\* is logged and re-raised, the later writes are not attempted.
SaveResults(md, sl, sk, fs, fault) ==
    IF fault = "makedirs" THEN [files |-> fs, raised |-> TRUE]
    ELSE LET m == SaveMetadata(md, fs, fault)
         IN  IF m.raised THEN m
             ELSE LET l == SaveSlugs(sl, m.files, fault)
                  IN  IF l.raised THEN l
                      ELSE SaveSkipped(sk, l.files, fault)

\* The output directory before a run: empty, or as an earlier run that
\* accepted one market and skipped another left it.
EarlierAccepted ==
    [shape |-> "dict", slug |-> "b", condition_id |-> "0xc", question |-> None,
     description |-> None, status |-> None, tags |-> NoTags]

EarlierSkipped ==
    [shape |-> "dict", slug |-> "a", condition_id |-> None, question |-> None,
     description |-> None, status |-> None, tags |-> NoTags]

(* ------------------------------------------------- classification of items *)
\* market.get("tags", [])
GetTags(value, default) == IF value = NoTags THEN default ELSE value

\* the metadata built without the defaults
ExtractMetadata_NoDefaults(market) ==
    [question |-> market.question,
     description |-> market.description,
     status |-> market.status,
     tags |-> market.tags]

ExtractMetadata(market) ==
    [question |-> Get(market.question, ""),
     description |-> Get(market.description, ""),
     status |-> Get(market.status, ""),
     tags |-> GetTags(market.tags, <<>>)]

\* the limit test of the item loop, off by one
ItemLimitReached_OffByOne(cnt, lim) == cnt > lim

ItemLimitReached(cnt, lim) == cnt >= lim

HasSlug(market) == market.slug # None

HasConditionId(market) == market.condition_id # None

\* the skipped record written without its reason
SkipRecord_NoReason(market) == [reason |-> None, market_data |-> market]

SkipRecord(market) == [reason |-> "Missing condition_id", market_data |-> market]

\* the slug put at the head of the list
AppendSlug_AtHead(sl, slug) == <<slug>> \o sl

\* a slug appended only when the list does not hold it yet
AppendSlug_Unique(sl, slug) ==
    IF \E i \in DOMAIN sl : sl[i] = slug THEN sl ELSE Append(sl, slug)

\* market_slugs.append(market_slug)
AppendSlug(sl, slug) == Append(sl, slug)

\* an iteration that drops an item whose slug is already accepted
ProcessItem_DropsKnownSlug(acc, market, lim) ==
    IF acc.stopped \/ acc.error # None THEN acc
    ELSE IF ItemLimitReached(acc.count, lim) THEN [acc EXCEPT !.stopped = TRUE]
    ELSE IF market.shape # "dict" THEN [acc EXCEPT !.error = "AttributeError"]
    ELSE IF ~HasSlug(market) \/ market.slug \in DOMAIN acc.markets_data THEN acc
    ELSE IF ~HasConditionId(market)
         THEN [acc EXCEPT !.skipped_markets = Put(@, market.slug, SkipRecord(market))]
    ELSE [acc EXCEPT !.markets_data = Put(@, market.slug, [metadata |-> ExtractMetadata(market)]),
                     !.market_slugs = AppendSlug(@, market.slug),
                     !.count = @ + 1]

\* One iteration of the loop over current_markets.
ProcessItem(acc, market, lim) ==
    IF acc.stopped \/ acc.error # None THEN acc
    ELSE IF ItemLimitReached(acc.count, lim) THEN [acc EXCEPT !.stopped = TRUE]
    ELSE IF market.shape # "dict" THEN [acc EXCEPT !.error = "AttributeError"]
    ELSE IF ~HasSlug(market) THEN acc
    ELSE IF ~HasConditionId(market)
         THEN [acc EXCEPT !.skipped_markets = Put(@, market.slug, SkipRecord(market))]
    ELSE [acc EXCEPT !.markets_data = Put(@, market.slug, [metadata |-> ExtractMetadata(market)]),
                     !.market_slugs = AppendSlug(@, market.slug),
                     !.count = @ + 1]

EarlierRunFiles ==
    SaveResults(Put(EmptyMap, EarlierAccepted.slug,
                    [metadata |-> ExtractMetadata(EarlierAccepted)]),
                <<EarlierAccepted.slug>>,
                Put(EmptyMap, EarlierSkipped.slug, SkipRecord(EarlierSkipped)),
                NoFiles, "none").files

PriorFiles == {NoFiles, EarlierRunFiles}

(* ----------------------------------------------------------- retry policy *)
\* the last-attempt test compared against max_retries instead of max_retries - 1
LastAttempt_OffByOne(r) == ~(r < max_retries)

LastAttempt(r) == ~(r < max_retries - 1)

\* the for loop over range(max_retries) moves on after a failed attempt
FailedNext(r) == r + 1

\* "continue" after a 429 response moves the for loop on as well
\* a 429 response retried without using up an attempt
RateLimitedNext_Free(r) == r

RateLimitedNext(r) == r + 1

\* the delay left as it is after a failure
NextRetryDelay_Flat(d) == d

NextRetryDelay(d) == d * 2

ParseInt(header) == IF header = "7" THEN 7 ELSE 0

IsInt(header) == header = "7"

\* int(response.headers.get("Retry-After", retry_delay))
RetryAfter(header, d) == IF header = None THEN d ELSE ParseInt(header)

\* the while condition without its limit test
LoopContinues_CursorOnly(cursor, cnt, lim) == cursor # end_cursor

LoopContinues(cursor, cnt, lim) == cursor # end_cursor /\ cnt < lim

\* the handler re-raising without saving
PartialSaveNeeded_Never(md, sl, sk) == FALSE

PartialSaveNeeded(md, sl, sk) == DOMAIN md # {} \/ sl # <<>> \/ DOMAIN sk # {}

(* ------------------------------------------------------------- the run ends *)
Finish(kind, cause, fs, calls) ==
    /\ pc' = "done"
    /\ outcome' = [kind |-> kind, cause |-> cause]
    /\ files' = fs
    /\ save_calls' = calls

\* Lines 148-154, and the handler of lines 156-162 when save_results raises:
\* the call of save_results is inside the try block.
ReturnPath(md, sl, sk) ==
    \E f1 \in Faults :
        LET r1 == SaveResults(md, sl, sk, files, f1)
        IN  IF ~r1.raised THEN Finish("returned", None, r1.files, 1)
            ELSE IF PartialSaveNeeded(md, sl, sk)
                 THEN \E f2 \in {"none", f1} :
                        Finish("raised", "OSError",
                               SaveResults(md, sl, sk, r1.files, f2).files, 2)
                 ELSE Finish("raised", "OSError", r1.files, 1)

\* The handler of lines 156-162 for an exception raised inside the loop.
RaisePath(md, sl, sk, cause) ==
    IF PartialSaveNeeded(md, sl, sk)
    THEN \E f \in Faults :
            LET r == SaveResults(md, sl, sk, files, f)
            IN  Finish("raised", IF r.raised THEN "OSError" ELSE cause, r.files, 1)
    ELSE Finish("raised", cause, files, 0)

\* every request asking for the first page again
RequestCursor_Initial(cursor) == initial_cursor

\* The cursor in the url of the requests of a page: url is built from
\* next_cursor once, before the retry loop.
RequestCursor(cursor) == cursor

\* One more HTTP request goes out for page p, carrying `cursor`.
Issue(req, p, cursor) ==
    IF req.page = p
    THEN [req EXCEPT !.n = @ + 1, !.cursor = cursor]
    ELSE [page |-> p, n |-> 1, cursor |-> cursor]

StillFetching ==
    /\ pc' = "fetching"
    /\ UNCHANGED <<outcome, files, save_calls>>

KeepAccumulated ==
    UNCHANGED <<limit, next_cursor, count, markets_data, market_slugs,
                skipped_markets, items_left, page, files_at_start>>

\* The retry loop ran out with data = None: "if not data: break".
LoopExhausted(last) ==
    /\ failed_page' = [page |-> page, last |-> last]
    /\ ReturnPath(markets_data, market_slugs, skipped_markets)

\* The loop over the page's items is over: the while condition is tested
\* again, and either the next page is requested or the run saves and returns.
AfterPage(cursor, md, sl, sk, cnt) ==
    IF LoopContinues(cursor, cnt, limit)
    THEN /\ page' = page + 1
         /\ retry' = 0
         /\ retry_delay' = initial_retry_delay
         /\ waits' = <<>>
         /\ StillFetching
    ELSE /\ ReturnPath(md, sl, sk)
         /\ UNCHANGED <<page, retry, retry_delay, waits>>

(* ------------------------------------------------------------------ actions *)
Idle ==
    /\ pc = "idle"
    /\ limit = 0
    /\ next_cursor = initial_cursor
    /\ count = 0
    /\ markets_data = EmptyMap
    /\ market_slugs = <<>>
    /\ skipped_markets = EmptyMap
    /\ items_left = 0
    /\ retry = 0
    /\ retry_delay = initial_retry_delay
    /\ page = 0
    /\ requests = [page |-> 0, n |-> 0, cursor |-> None]
    /\ waits = <<>>
    /\ failed_page = NoFailure
    /\ save_calls = 0
    /\ outcome = NoOutcome
    /\ files \in PriorFiles
    /\ files_at_start = files

NoLookup == [index |-> 0, kind |-> None, requests |-> 0, sleeps |-> <<>>]

EnrichIdle ==
    /\ phase = "idle"
    /\ market_index = 0
    /\ attempt = 0
    /\ price_history = <<>>
    /\ enhanced_markets = <<>>
    /\ lookup = NoLookup
    /\ looked_up = {}
    /\ failed_lookups = {}

Init ==
    /\ Idle
    /\ input = None
    /\ output = NotCalled
    /\ EnrichIdle

\* fetch_market_metadata(limit) is called with the credentials set.
StartRun(lim) ==
    /\ pc = "idle"
    /\ UNCHANGED call_vars
    /\ limit' = lim
    /\ UNCHANGED <<next_cursor, count, markets_data, market_slugs, skipped_markets,
                   items_left, retry, retry_delay, requests, waits, failed_page,
                   files_at_start>>
    /\ IF LoopContinues(initial_cursor, 0, lim)
       THEN /\ page' = 1
            /\ StillFetching
       ELSE /\ page' = 0
            /\ ReturnPath(EmptyMap, <<>>, EmptyMap)

\* the credentials tested only after a first request went out
StartRunWithoutCredentials_Late(lim) ==
    /\ pc = "idle"
    /\ UNCHANGED call_vars
    /\ limit' = lim
    /\ requests' = Issue(requests, 1, RequestCursor(initial_cursor))
    /\ UNCHANGED <<next_cursor, count, markets_data, market_slugs, skipped_markets,
                   items_left, retry, retry_delay, page, waits,
                   failed_page, files_at_start>>
    /\ Finish("raised", "ConfigError", files, 0)

\* fetch_market_metadata is called with a credential missing.
StartRunWithoutCredentials(lim) ==
    /\ pc = "idle"
    /\ UNCHANGED call_vars
    /\ limit' = lim
    /\ UNCHANGED <<next_cursor, count, markets_data, market_slugs, skipped_markets,
                   items_left, retry, retry_delay, page, requests, waits,
                   failed_page, files_at_start>>
    /\ Finish("raised", "ConfigError", files, 0)

\* requests.get or raise_for_status raises a RequestException.
AttemptException(e) ==
    /\ pc = "fetching"
    /\ UNCHANGED call_vars
    /\ page <= MaxPages
    /\ requests' = Issue(requests, page, RequestCursor(next_cursor))
    /\ KeepAccumulated
    /\ IF LastAttempt(retry)
       THEN /\ failed_page' = [page |-> page, last |-> "exception"]
            /\ RaisePath(markets_data, market_slugs, skipped_markets, e)
            /\ UNCHANGED <<retry, retry_delay, waits>>
       ELSE /\ waits' = Append(waits, [attempt |-> retry, kind |-> "exception",
                                       header |-> None, secs |-> retry_delay])
            /\ retry_delay' = NextRetryDelay(retry_delay)
            /\ retry' = FailedNext(retry)
            /\ IF FailedNext(retry) < max_retries
               THEN StillFetching /\ UNCHANGED failed_page
               ELSE LoopExhausted("exception")

\* The response has status 429.
AttemptRateLimited(header) ==
    /\ pc = "fetching"
    /\ UNCHANGED call_vars
    /\ page <= MaxPages
    /\ requests' = Issue(requests, page, RequestCursor(next_cursor))
    /\ KeepAccumulated
    /\ IF header # None /\ ~IsInt(header)
       THEN /\ RaisePath(markets_data, market_slugs, skipped_markets, "ValueError")
            /\ UNCHANGED <<retry, retry_delay, waits, failed_page>>
       ELSE /\ waits' = Append(waits, [attempt |-> retry, kind |-> "429",
                                       header |-> header,
                                       secs |-> RetryAfter(header, retry_delay)])
            /\ retry' = RateLimitedNext(retry)
            /\ UNCHANGED retry_delay
            /\ IF RateLimitedNext(retry) < max_retries
               THEN StillFetching /\ UNCHANGED failed_page
               ELSE LoopExhausted("429")

\* len(data.get("data", []))
CurrentMarkets(resp) == IF resp.has_data THEN resp.size ELSE 0

\* data.get("next_cursor") with no default
ResponseCursor_NoDefault(resp) == resp.next_cursor

\* data.get("next_cursor", end_cursor)
ResponseCursor(resp) == Get(resp.next_cursor, end_cursor)

\* The response has status 200 and a JSON body.
AttemptOk(resp) ==
    /\ pc = "fetching"
    /\ UNCHANGED call_vars
    /\ page <= MaxPages
    /\ requests' = Issue(requests, page, RequestCursor(next_cursor))
    /\ UNCHANGED <<limit, files_at_start, failed_page, count, markets_data,
                   market_slugs, skipped_markets>>
    /\ CASE resp.kind = "falsy" ->
              /\ ReturnPath(markets_data, market_slugs, skipped_markets)
              /\ UNCHANGED <<next_cursor, items_left, page, retry, retry_delay, waits>>
         [] resp.kind = "list" ->
              /\ RaisePath(markets_data, market_slugs, skipped_markets, "AttributeError")
              /\ UNCHANGED <<next_cursor, items_left, page, retry, retry_delay, waits>>
         [] resp.kind = "dict" ->
              /\ next_cursor' = ResponseCursor(resp)
              /\ items_left' = CurrentMarkets(resp)
              /\ IF CurrentMarkets(resp) > 0
                 THEN /\ pc' = "processing"
                      /\ waits' = <<>>
                      /\ UNCHANGED <<outcome, files, save_calls, page, retry,
                                     retry_delay>>
                 ELSE AfterPage(ResponseCursor(resp), markets_data, market_slugs,
                                skipped_markets, count)

\* The accumulators as the loop over the page's items finds them.
Accumulated ==
    [markets_data |-> markets_data, market_slugs |-> market_slugs,
     skipped_markets |-> skipped_markets, count |-> count,
     stopped |-> FALSE, error |-> None]

\* One iteration of "for market in current_markets", and what follows it when
\* it is the last one, breaks out of the loop or raises.
NextItem(market) ==
    /\ pc = "processing"
    /\ UNCHANGED call_vars
    /\ LET acc == ProcessItem(Accumulated, market, limit)
       IN  /\ count' = acc.count
           /\ markets_data' = acc.markets_data
           /\ market_slugs' = acc.market_slugs
           /\ skipped_markets' = acc.skipped_markets
           /\ UNCHANGED <<limit, next_cursor, requests, failed_page, files_at_start>>
           /\ IF acc.error # None
              THEN /\ RaisePath(acc.markets_data, acc.market_slugs,
                                acc.skipped_markets, acc.error)
                   /\ UNCHANGED <<items_left, page, retry, retry_delay, waits>>
              ELSE IF acc.stopped
              THEN /\ UNCHANGED items_left
                   /\ AfterPage(next_cursor, acc.markets_data, acc.market_slugs,
                                acc.skipped_markets, acc.count)
              ELSE IF items_left = 1
              THEN /\ items_left' = 0
                   /\ AfterPage(next_cursor, acc.markets_data, acc.market_slugs,
                                acc.skipped_markets, acc.count)
              ELSE /\ items_left' = items_left - 1
                   /\ UNCHANGED <<pc, outcome, files, save_calls, page, retry,
                                  retry_delay, waits>>

Next ==
    \/ \E lim \in 0..MaxLimit : StartRun(lim)
    \/ \E lim \in 0..MaxLimit : StartRunWithoutCredentials(lim)
    \/ \E e \in RequestExceptions : AttemptException(e)
    \/ \E header \in RetryAfterHeaders : AttemptRateLimited(header)
    \/ \E resp \in Responses : AttemptOk(resp)
    \/ \E market \in RawItems : NextItem(market)

Spec == Init /\ [][Next]_vars

\* The provider answers every request with a non-empty page that carries the
\* same non-terminal cursor.
SameCursorPages ==
    {resp \in Responses :
        resp.kind = "dict" /\ resp.has_data /\ resp.size > 0 /\ resp.next_cursor = "C1"}

NextSameCursor ==
    \/ \E lim \in 0..MaxLimit : StartRun(lim)
    \/ \E resp \in SameCursorPages : AttemptOk(resp)
    \/ \E market \in RawItems : NextItem(market)

SpecSameCursor == Init /\ [][NextSameCursor]_vars

(* ------------------------------------------- the metadata of one raw market *)
\* Lines 131-138 applied to one structured item.
InitExtract ==
    /\ Idle
    /\ files = NoFiles
    /\ input \in DetailedItems
    /\ output = NotCalled
    /\ EnrichIdle

Extract ==
    /\ ~output.called
    /\ output' = Returned(ExtractMetadata(input))
    /\ UNCHANGED <<run_vars, input, enrich_vars>>

SpecExtract == InitExtract /\ [][Extract]_vars

(* ------------------------------------- fetch_polymarket_data.py: enrichment *)
lookup_max_retries == 3
lookup_retry_delay == 2

\* Markets as client.get_markets returns them.
RawMarkets ==
    {[id |-> i, fpmm_contract_address |-> h] : i \in {"m1", "m2"}, h \in {None, "0xf"}}

MarketLists == UNION {[1..n -> RawMarkets] : n \in 0..MaxMarkets}

\* What one attempt of a lookup ends in: an exception (of the request, of
\* raise_for_status or of the parsing), a falsy body, or a list of entries.
LookupResponses == {"exception", "empty", "data"}

PriceData ==
    <<[timestamp |-> 1, price |-> "0.5", liquidity |-> None, source |-> "amm"]>>

TradeData ==
    <<[timestamp |-> 1, trader |-> "0xt", amount |-> "5", price |-> "0.5", side |-> "buy"]>>

FormatPriceHistory(price_data) ==
    [i \in DOMAIN price_data |->
        [timestamp |-> price_data[i].timestamp,
         price |-> price_data[i].price,
         liquidity |-> price_data[i].liquidity]]

FormatTradeHistory(trade_data) ==
    [i \in DOMAIN trade_data |->
        [timestamp |-> trade_data[i].timestamp,
         trader |-> trade_data[i].trader,
         amount |-> trade_data[i].amount,
         price |-> trade_data[i].price]]

\* the retry test compared against max_retries instead of max_retries - 1
LookupRetries_OffByOne(a) == a < lookup_max_retries

\* "if attempt < max_retries - 1" of the two lookups
LookupRetries(a) == a < lookup_max_retries - 1

\* the lookup re-raising when its last attempt fails
LookupFailure_Raises == [raised |-> TRUE, value |-> <<>>]

\* what a lookup hands to its caller when its last attempt fails: "return []"
LookupFailure == [raised |-> FALSE, value |-> <<>>]

\* How an attempt that does not lead to a retry ends the lookup.
LookupResult(resp, formatted) ==
    IF resp = "exception" THEN LookupFailure
    ELSE IF resp = "empty" THEN [raised |-> FALSE, value |-> <<>>]
    ELSE [raised |-> FALSE, value |-> formatted]

\* enhanced_market = market.copy() with the two histories set
Enhance(market, ph, th) ==
    [k \in DOMAIN market \cup {"price_history", "trade_history"} |->
        IF k = "price_history" THEN ph
        ELSE IF k = "trade_history" THEN th
        ELSE market[k]]

\* The loop over markets from position i on: markets without
\* fpmm_contract_address are appended as they are, up to the first market
\* that needs its lookups.
RECURSIVE PassThrough(_, _, _)
PassThrough(markets, i, acc) ==
    IF i > Len(markets) THEN [index |-> i, enhanced |-> acc]
    ELSE IF markets[i].fpmm_contract_address = None
         THEN PassThrough(markets, i + 1, Append(acc, markets[i]))
    ELSE [index |-> i, enhanced |-> acc]

ContinueLoop(i, acc) ==
    LET p == PassThrough(input, i, acc)
    IN  /\ enhanced_markets' = p.enhanced
        /\ market_index' = p.index
        /\ attempt' = 0
        /\ price_history' = <<>>
        /\ IF p.index > Len(input)
           THEN phase' = "done" /\ output' = Returned(p.enhanced)
           ELSE phase' = "price" /\ output' = output

\* The except clause of fetch_market_data.
FetchMarketDataRaises ==
    /\ phase' = "done"
    /\ output' = Raised("Exception")
    /\ UNCHANGED <<market_index, attempt, price_history, enhanced_markets>>

\* One more request of the lookup `kind` for the market at market_index.
Request(kind) ==
    IF lookup.index = market_index /\ lookup.kind = kind
    THEN [lookup EXCEPT !.requests = @ + 1]
    ELSE [index |-> market_index, kind |-> kind, requests |-> 1, sleeps |-> <<>>]

InitEnrich ==
    /\ Idle
    /\ files = NoFiles
    /\ input \in MarketLists
    /\ output = NotCalled
    /\ EnrichIdle

\* fetch_market_data is called and client.get_markets returns the markets.
GetMarkets ==
    /\ phase = "idle"
    /\ ContinueLoop(1, <<>>)
    /\ UNCHANGED <<run_vars, input, lookup, looked_up, failed_lookups>>

\* client.get_markets raises.
GetMarketsFails ==
    /\ phase = "idle"
    /\ FetchMarketDataRaises
    /\ UNCHANGED <<run_vars, input, lookup, looked_up, failed_lookups>>

\* One attempt of fetch_price_history for the current market.
PriceAttempt(resp) ==
    /\ phase = "price"
    /\ looked_up' = looked_up \cup {market_index}
    /\ UNCHANGED <<run_vars, input, market_index, enhanced_markets>>
    /\ IF resp = "exception" /\ LookupRetries(attempt)
       THEN /\ lookup' = [Request("price") EXCEPT !.sleeps = Append(@, lookup_retry_delay)]
            /\ attempt' = attempt + 1
            /\ UNCHANGED <<phase, price_history, output, failed_lookups>>
       ELSE LET r == LookupResult(resp, FormatPriceHistory(PriceData))
            IN  /\ lookup' = Request("price")
                /\ failed_lookups' =
                      IF resp = "exception"
                      THEN failed_lookups \cup {<<market_index, "price">>}
                      ELSE failed_lookups
                /\ IF r.raised
                   THEN FetchMarketDataRaises
                   ELSE /\ price_history' = r.value
                        /\ phase' = "trade"
                        /\ attempt' = 0
                        /\ UNCHANGED output

\* the histories set on the market itself, with no copy taken
MarketsAfterEnhance_InPlace(markets, i, enhanced) == [markets EXCEPT ![i] = enhanced]

\* The list get_markets returned, after the loop body enhanced the market at
\* position i: the histories are set on market.copy(), so the list and its
\* markets are as they were.
MarketsAfterEnhance(markets, i, enhanced) == markets

\* One attempt of fetch_trade_history for the current market, and on its last
\* one the end of the loop body and what follows it.
TradeAttempt(resp) ==
    /\ phase = "trade"
    /\ UNCHANGED <<run_vars, looked_up>>
    /\ IF resp = "exception" /\ LookupRetries(attempt)
       THEN /\ lookup' = [Request("trade") EXCEPT !.sleeps = Append(@, lookup_retry_delay)]
            /\ attempt' = attempt + 1
            /\ UNCHANGED <<input, phase, market_index, price_history, enhanced_markets,
                           output, failed_lookups>>
       ELSE LET r == LookupResult(resp, FormatTradeHistory(TradeData))
                enhanced_market == Enhance(input[market_index], price_history, r.value)
            IN  /\ lookup' = Request("trade")
                /\ failed_lookups' =
                      IF resp = "exception"
                      THEN failed_lookups \cup {<<market_index, "trade">>}
                      ELSE failed_lookups
                /\ IF r.raised
                   THEN FetchMarketDataRaises /\ UNCHANGED input
                   ELSE /\ input' = MarketsAfterEnhance(input, market_index, enhanced_market)
                        /\ ContinueLoop(market_index + 1,
                                        Append(enhanced_markets, enhanced_market))

NextEnrich ==
    \/ GetMarkets
    \/ GetMarketsFails
    \/ \E resp \in LookupResponses : PriceAttempt(resp)
    \/ \E resp \in LookupResponses : TradeAttempt(resp)

SpecEnrich == InitEnrich /\ [][NextEnrich]_vars

(* --------------------------------------- fetch_data.py: process_market_data *)
\* d.get(k, default) on a dict given as a function of its keys
DictGet(d, k, default) == IF k \in DOMAIN d THEN d[k] ELSE default

Restrict(d, keys) == [k \in keys |-> d[k]]

\* Entries of "historicalPrices": any of the fields may be missing.
FullPriceEntry == [timestamp |-> 1, price |-> "0.5", outcome |-> "Yes", liquidity |-> "10"]

PriceEntries ==
    {Restrict(FullPriceEntry, keys) :
        keys \in {{"timestamp", "price", "outcome", "liquidity"},
                  {"timestamp", "price", "outcome"},
                  {"timestamp", "price"},
                  {"price", "outcome"},
                  {"timestamp", "outcome", "liquidity"},
                  {}}}

HistoricalPrices ==
    {<<>>} \cup {<<e>> : e \in PriceEntries}
    \cup {<<Restrict(FullPriceEntry, {"timestamp", "price"}), FullPriceEntry>>}

FullGqlMarket(hp) ==
    [id |-> "1", question |-> "Q", category |-> "sports", isResolved |-> TRUE,
     volume |-> "10", historicalPrices |-> hp]

\* Markets of the response: with all the fields, with none, or with some.
GqlMarkets ==
    {Restrict(FullGqlMarket(hp), keys) :
        hp \in HistoricalPrices,
        keys \in {{"id", "question", "category", "isResolved", "volume", "historicalPrices"},
                  {"id", "historicalPrices"}}}
    \cup {Restrict(FullGqlMarket(<<>>), keys) :
            keys \in {{}, {"question", "category", "isResolved", "volume"}}}

GqlMarketLists == UNION {[1..n -> GqlMarkets] : n \in 0..MaxMarkets}

\* The raw API responses: with their markets, without "markets", without "data".
RawData ==
    {[data |-> [markets |-> l]] : l \in GqlMarketLists}
    \cup {[data |-> EmptyMap], EmptyMap}

\* no price entry is kept
KeepsPriceEntry_Never(price_entry) == FALSE

\* all(k in price_entry for k in ["timestamp", "price", "outcome"])
KeepsPriceEntry(price_entry) ==
    \A k \in {"timestamp", "price", "outcome"} : k \in DOMAIN price_entry

RECURSIVE ProcessPrices(_)
ProcessPrices(historical_prices) ==
    IF historical_prices = <<>> THEN <<>>
    ELSE LET price_entry == Head(historical_prices)
             rest == ProcessPrices(Tail(historical_prices))
         IN  IF KeepsPriceEntry(price_entry)
             THEN <<[timestamp |-> price_entry["timestamp"],
                     price |-> price_entry["price"],
                     outcome |-> price_entry["outcome"]]>> \o rest
             ELSE rest

ProcessMarket(market) ==
    [id |-> DictGet(market, "id", "unknown"),
     question |-> DictGet(market, "question", "unknown"),
     category |-> DictGet(market, "category", "unknown"),
     is_resolved |-> DictGet(market, "isResolved", FALSE),
     resolution |-> DictGet(market, "resolution", "unknown"),
     outcome |-> DictGet(market, "resolutionValue", "unknown"),
     volume |-> DictGet(market, "volume", "0"),
     outcomes |-> DictGet(market, "outcomes", <<>>),
     historical_prices |-> ProcessPrices(DictGet(market, "historicalPrices", <<>>))]

\* raw_data.get("data", {}).get("markets", [])
ResponseMarkets(raw_data) == DictGet(DictGet(raw_data, "data", EmptyMap), "markets", <<>>)

process_market_data(raw_data) ==
    LET markets == ResponseMarkets(raw_data)
    IN  [i \in DOMAIN markets |-> ProcessMarket(markets[i])]

InitProcess ==
    /\ Idle
    /\ files = NoFiles
    /\ input \in RawData
    /\ output = NotCalled
    /\ EnrichIdle

Process ==
    /\ ~output.called
    /\ output' = Returned(process_market_data(input))
    /\ UNCHANGED <<run_vars, input, enrich_vars>>

SpecProcess == InitProcess /\ [][Process]_vars

(* ------------------------------------- fetch_polymarket_data.py: validate_pk *)
key_length == 64

\* Characters a key may be made of: two hexadecimal digits, the letters "x"
\* and "g", the signs, the underscore and the blank.
HexDigits == {"0", "f"}
OtherChars == {"x", "g", "+", "-", "_", " "}

RECURSIVE Repeat(_, _)
Repeat(c, n) == IF n <= 0 THEN <<>> ELSE <<c>> \o Repeat(c, n - 1)

\* what a key may begin with, and the one character it may end with
Leads == UNION {[1..k -> {"0"} \cup OtherChars] : k \in 0..MaxLead}
Trails == {<<>>} \cup {<<c>> : c \in {"0"} \cup OtherChars}

Str(chars) == [type |-> "str", chars |-> chars]

\* The arguments of validate_pk: strings of key_length - 1, key_length and
\* key_length + 1 characters, hexadecimal digits but for their first and
\* last characters, the empty string, and values that are not strings.
PkInputs ==
    {Str(lead \o Repeat("f", n - Len(lead) - Len(trail)) \o trail) :
        lead \in Leads, trail \in Trails,
        n \in {key_length - 1, key_length, key_length + 1}}
    \cup {Str(<<>>), [type |-> "NoneType", chars |-> <<>>],
          [type |-> "int", chars |-> <<>>], [type |-> "bytes", chars |-> <<>>]}

RECURSIVE StripLeft(_)
StripLeft(s) == IF s # <<>> /\ s[1] = " " THEN StripLeft(Tail(s)) ELSE s

RECURSIVE StripRight(_)
StripRight(s) ==
    IF s # <<>> /\ s[Len(s)] = " " THEN StripRight(SubSeq(s, 1, Len(s) - 1)) ELSE s

StripSign(s) == IF s # <<>> /\ s[1] \in {"+", "-"} THEN Tail(s) ELSE s

\* a "0x" prefix is skipped in base 16, and one underscore after it
StripPrefix(s) ==
    IF Len(s) >= 2 /\ s[1] = "0" /\ s[2] = "x"
    THEN LET t == SubSeq(s, 3, Len(s))
         IN  IF t # <<>> /\ t[1] = "_" THEN Tail(t) ELSE t
    ELSE s

\* digits with single underscores between them
DigitsBase16(s) ==
    /\ s # <<>>
    /\ s[1] # "_" /\ s[Len(s)] # "_"
    /\ \A i \in DOMAIN s : s[i] \in HexDigits \cup {"_"}
    /\ \A i \in 1..(Len(s) - 1) : ~(s[i] = "_" /\ s[i + 1] = "_")

\* int(pk, 16) does not raise ValueError: blanks around the literal, a sign
\* and a "0x" prefix are accepted before the digits.
IntBase16Parses(chars) ==
    DigitsBase16(StripPrefix(StripSign(StripRight(StripLeft(chars)))))

validate_pk(pk) ==
    IF pk.type # "str" \/ pk.chars = <<>> THEN FALSE
    ELSE IF Len(pk.chars) # key_length THEN FALSE
    ELSE IntBase16Parses(pk.chars)

InitValidate ==
    /\ Idle
    /\ files = NoFiles
    /\ input \in PkInputs
    /\ output = NotCalled
    /\ EnrichIdle

Validate ==
    /\ ~output.called
    /\ output' = Returned(validate_pk(input))
    /\ UNCHANGED <<run_vars, input, enrich_vars>>

SpecValidate == InitValidate /\ [][Validate]_vars

(* ------------------------------------------------------------------- claims *)
Done == pc = "done"

IoFailed == outcome.cause = "OSError"

\* What an output file holds after a flush of `content`: the content, or what
\* it held before when there was nothing to write.
Holds(file, content, empty, before) ==
    IF content = empty THEN file = before ELSE file = CompleteFile(content)

NoDuplicates(seq) == \A i, j \in DOMAIN seq : seq[i] = seq[j] => i = j

RECURSIVE Pow2(_)
Pow2(n) == IF n = 0 THEN 1 ELSE 2 * Pow2(n - 1)

FailuresBefore(i) == Cardinality({j \in 1..(i - 1) : waits[j].kind = "exception"})

C2_FlushAtMostOnce ==
    /\ save_calls <= 1
    /\ (Done /\ PartialSaveNeeded(markets_data, market_slugs, skipped_markets))
           => save_calls = 1

\* C3 (as claimed): the number of page requests of a run is bounded by the
\* fetch limit (the code has no page-count ceiling).
C3_PageRequestsBounded == page <= limit

\* C4 (as claimed): the items classified in a run never exceed the fetch
\* limit; the accepted items and the skipped records are among them.
C4_ClassifiedWithinLimit ==
    count + Cardinality(DOMAIN skipped_markets) <= limit

\* C4 (amended): the accepted items never exceed the fetch limit: the counter,
\* the slug list and the accepted map all stay within it; skipped items are
\* not counted against the limit.
C4_AcceptedWithinLimit ==
    /\ count <= limit
    /\ Len(market_slugs) <= limit
    /\ Cardinality(DOMAIN markets_data) <= limit

\* C4 (witness): the limit is reached while a skipped record exists as well.
C4_Witness ==
    /\ limit > 0
    /\ count = limit
    /\ DOMAIN skipped_markets # {}

\* C5 (as claimed): the identifier list written to market_list.json has no
\* duplicate entry and no null entry.
C5_IdentifierListUnique ==
    files.slugs_file.state = "complete" =>
        /\ NoDuplicates(files.slugs_file.content)
        /\ \A i \in DOMAIN files.slugs_file.content : files.slugs_file.content[i] # None

C7_FirstPageFailureAborts ==
    (Done /\ failed_page.page = 1) =>
        (outcome.kind = "raised" /\ files = files_at_start)

\* C8 (as claimed): when all attempts of a page request are used up without a
\* response, the run ends by raising, whatever the attempts ended in.
C8_ExhaustionSignalsFailure ==
    (Done /\ failed_page.page > 0) => outcome.kind = "raised"

\* C9: no page gets more than max_retries HTTP requests, and every wait of the
\* retry loop, the one after a 429 response included, belongs to a request
\* that used up one of them.
C9_AtMostThreeRequests ==
    /\ requests.n <= max_retries
    /\ requests.page = page => Len(waits) <= requests.n
    /\ (pc = "fetching" /\ requests.page = page) => requests.n = retry

\* C9 (witness): three requests for one page, a 429 response and a failure
\* among them.
C9_Witness ==
    /\ requests.n = max_retries
    /\ \E i \in DOMAIN waits : waits[i].kind = "429"
    /\ \E i \in DOMAIN waits : waits[i].kind = "exception"

\* C10 (as claimed): the wait after failed attempt number a is
\* initial_retry_delay * 2^a.
C10_BackoffByAttemptNumber ==
    \A i \in DOMAIN waits :
        waits[i].kind = "exception" =>
            waits[i].secs = initial_retry_delay * Pow2(waits[i].attempt)

\* C10 (amended): the wait after an attempt that failed with a network or HTTP
\* error is initial_retry_delay * 2^e, e being the number of earlier attempts
\* for the page that failed that way (a 429 response does not advance the
\* schedule), and no wait follows the last attempt.
C10_BackoffByFailureCount ==
    \A i \in DOMAIN waits :
        waits[i].kind = "exception" =>
            /\ waits[i].secs = initial_retry_delay * Pow2(FailuresBefore(i))
            /\ waits[i].attempt < max_retries - 1

\* C10 (witness): a failure at attempt 1 that follows a 429 response waits the
\* initial delay.
C10_Witness ==
    \E i \in DOMAIN waits :
        /\ waits[i].kind = "exception"
        /\ waits[i].attempt = 1
        /\ waits[i].secs = initial_retry_delay

\* The step is an iteration of the item loop that gets past the limit test
\* with the structured record `market`.
Classifies(market) ==
    /\ pc = "processing"
    /\ market.shape = "dict"
    /\ count < limit
    /\ NextItem(market)

\* C11 (as claimed): a 429 response is always followed by a wait and another
\* attempt, never by an abort of the run; the wait equals the Retry-After
\* duration when the header is present, and initial_retry_delay * 2^attempt
\* otherwise.
C11_RetryAfterHonoured ==
    /\ outcome.cause # "ValueError"
    /\ \A i \in DOMAIN waits :
          waits[i].kind = "429" =>
              waits[i].secs = IF waits[i].header # None
                              THEN ParseInt(waits[i].header)
                              ELSE initial_retry_delay * Pow2(waits[i].attempt)

\* C12 (as claimed): an item with neither a condition_id nor a slug is recorded
\* in the skipped set with the missing-condition-id reason, and is not added
\* to the identifier list.
C12_UnidentifiedItemQuarantined ==
    [][\A market \in RawItems :
          (market.slug = None /\ market.condition_id = None /\ Classifies(market)) =>
              /\ \E k \in DOMAIN skipped_markets' :
                     skipped_markets'[k] = SkipRecord(market)
              /\ market_slugs' = market_slugs]_vars

\* C13: an item the loop classifies that has a slug and no condition_id is put
\* in the skipped set under its slug, with the reason "Missing condition_id"
\* and the item itself; the accepted records, the slug list and the counter
\* tested against the limit are left as they were; and a skipped file written
\* by the run lists every skipped slug with its reason.
C13_SlugWithoutConditionIdSkipped ==
    /\ [][\A market \in RawItems :
            (market.slug # None /\ market.condition_id = None /\ Classifies(market)) =>
                /\ skipped_markets' =
                      Put(skipped_markets, market.slug,
                          [reason |-> "Missing condition_id", market_data |-> market])
                /\ markets_data' = markets_data
                /\ market_slugs' = market_slugs
                /\ count' = count]_vars
    /\ []((Done /\ ~IoFailed /\ DOMAIN skipped_markets # {}) =>
            files.skipped_file =
              CompleteFile([slug \in DOMAIN skipped_markets |->
                              [reason |-> "Missing condition_id"]]))

\* C13 (witness): a run that skipped slug "a" and accepted nothing returned
\* with the skipped file listing "a" and no slug list written.
C13_Witness ==
    /\ Done /\ outcome.kind = "returned"
    /\ limit > 0 /\ count = 0
    /\ "a" \in DOMAIN skipped_markets
    /\ "a" \notin DOMAIN markets_data
    /\ market_slugs = <<>>
    /\ files_at_start = NoFiles
    /\ files.skipped_file.state = "complete"
    /\ files.skipped_file.content["a"].reason = "Missing condition_id"
    /\ files.slugs_file = AbsentFile

\* C14 (as claimed): an item with a condition_id and no slug is accepted under
\* the identifier "market_" + condition_id: the identifier is appended to the
\* slug list and keys the item's accepted record.
C14_SlugSynthesized ==
    [][\A market \in RawItems :
          (market.slug = None /\ market.condition_id # None /\ Classifies(market)) =>
              LET synthesized == "market_" \o market.condition_id
              IN  /\ market_slugs' = Append(market_slugs, synthesized)
                  /\ synthesized \in DOMAIN markets_data'
                  /\ markets_data'[synthesized] =
                        [metadata |-> ExtractMetadata(market)]]_vars

\* C15 (as claimed): an item that is not a structured record is put in the
\* skipped set and the run goes on: it does not raise because of the item, and
\* the items that follow it in the page are still processed.
C15_MalformedItemAbsorbed ==
    [][(pc = "processing" /\ count < limit /\ NextItem(Malformed)) =>
          /\ outcome'.cause # "AttributeError"
          /\ \E k \in DOMAIN skipped_markets' :
                 skipped_markets'[k].market_data = Malformed
          /\ items_left > 1 => (pc' = "processing" /\ items_left' = items_left - 1)]_vars

C17_EmptyPageStops ==
    [][\A resp \in Responses :
          (resp.kind = "dict" /\ resp.has_data /\ resp.size = 0 /\ AttemptOk(resp)) =>
              (pc' = "done" /\ page' = page)]_vars

\* C18: with fetch limit L the accepted map never has more than L entries, no
\* page is requested once L items are accepted, and from the moment L items
\* are accepted the run only ends: the rest of the current page changes
\* nothing and no further request is issued.
C18_TruncatedToLimit ==
    /\ [](pc # "idle" => Cardinality(DOMAIN markets_data) <= limit)
    /\ [](pc = "fetching" => count < limit)
    /\ [][(pc # "idle" /\ count >= limit) =>
            /\ pc' = "done"
            /\ requests' = requests /\ page' = page
            /\ count' = count
            /\ markets_data' = markets_data
            /\ market_slugs' = market_slugs
            /\ skipped_markets' = skipped_markets
            /\ items_left' = items_left]_vars

\* C18 (witness): limit 1, a first page of two items with a non-terminal
\* cursor; the first item was accepted, the second was left unprocessed, and
\* the run returned one entry after one request.
C18_Witness ==
    /\ Done /\ outcome.kind = "returned"
    /\ limit = 1 /\ count = 1
    /\ Cardinality(DOMAIN markets_data) = 1
    /\ items_left = 1
    /\ next_cursor # end_cursor
    /\ requests = [page |-> 1, n |-> 1, cursor |-> initial_cursor]

\* C19 (as claimed): a response body without the "data" field ends the
\* pagination, whatever next cursor it carries: the run saves and completes
\* without raising (a failing file write aside) and no request for a further
\* page is prepared.
C19_MissingContainerStops ==
    [][\A resp \in Responses :
          (resp.kind = "dict" /\ ~resp.has_data /\ AttemptOk(resp)) =>
              /\ pc' = "done" /\ page' = page
              /\ outcome'.cause \in {None, "OSError"}]_vars

\* C20 (as claimed): when every request is answered by a non-empty page with
\* the same non-terminal cursor, the pagination ends once the limit is hit,
\* whatever the pages hold: every such page uses up at least one unit of the
\* limit, so no more pages are requested than the limit allows.
C20_SameCursorTerminates == page <= limit

\* An output file holds exactly `content`: the file written with it, or no
\* entry at all when `content` is empty.
Snapshot(file, content, empty) ==
    IF content = empty
    THEN file.state # "partial" /\ DOMAIN file.content = {}
    ELSE file = CompleteFile(content)

\* C21 (as claimed): after a run has flushed without a failing write, each of
\* the three output files holds exactly that run's set, whatever an earlier
\* run left in it, an empty set included.
C21_FullSnapshot ==
    (Done /\ save_calls > 0 /\ ~IoFailed) =>
        /\ Snapshot(files.metadata_file, markets_data, EmptyMap)
        /\ Snapshot(files.slugs_file, market_slugs, <<>>)
        /\ Snapshot(files.skipped_file, FormatSkipped(skipped_markets), EmptyMap)

\* C22 (as claimed): whatever write of save_results fails, each output file
\* holds either the complete content it had before the run or the complete
\* content the run wrote, never a truncated one.
C22_WritesAllOrNothing ==
    /\ files.metadata_file \in {files_at_start.metadata_file, CompleteFile(markets_data)}
    /\ files.slugs_file \in {files_at_start.slugs_file, CompleteFile(market_slugs)}
    /\ files.skipped_file \in
          {files_at_start.skipped_file, CompleteFile(FormatSkipped(skipped_markets))}

Range(seq) == {seq[i] : i \in DOMAIN seq}

\* C23 (as claimed): whenever a run ends, by returning or by raising, and
\* whatever an earlier run left, the identifiers in the slug list file are
\* exactly the keys of the accepted-records file.
C23_ListMatchesRecords ==
    Done => Range(files.slugs_file.content) = DOMAIN files.metadata_file.content

\* C25: a run started with a credential missing ends at once by raising: no
\* HTTP request is issued, save_results is not called and the output files
\* are exactly as the run found them.
C25_MissingCredentialsAbort ==
    /\ [][\A lim \in 0..MaxLimit :
            StartRunWithoutCredentials(lim) =>
                (pc' = "done" /\ outcome' = [kind |-> "raised", cause |-> "ConfigError"])]_vars
    /\ [](outcome.cause = "ConfigError" =>
            /\ Done /\ outcome.kind = "raised"
            /\ requests.n = 0 /\ page = 0
            /\ save_calls = 0
            /\ files = files_at_start
            /\ markets_data = EmptyMap /\ market_slugs = <<>>
            /\ skipped_markets = EmptyMap)

\* C25 (witness): a run with a credential missing has raised, and the files
\* an earlier run left are still there.
C25_Witness ==
    /\ Done
    /\ outcome = [kind |-> "raised", cause |-> "ConfigError"]
    /\ limit > 0
    /\ files_at_start = EarlierRunFiles
    /\ files = EarlierRunFiles

\* C26: a page request is outstanding or issued only when no item of an
\* earlier page is left to process, and the slug list grows only at its end,
\* by the slug of the item being processed, so it lists the accepted slugs in
\* the order the provider sent them.
C26_SequentialInOrder ==
    /\ [](pc = "fetching" => items_left = 0)
    /\ [][requests' # requests => (pc = "fetching" /\ items_left = 0)]_vars
    /\ [][market_slugs' # market_slugs =>
            /\ pc = "processing"
            /\ \E market \in RawItems :
                  /\ market.slug # None
                  /\ market_slugs' = Append(market_slugs, market.slug)
                  /\ NextItem(market)]_vars

\* C26 (witness): a run over two pages returned the slugs "b" and "a" in the
\* order they were received.
C26_Witness ==
    /\ Done /\ outcome.kind = "returned"
    /\ requests.page = 2
    /\ market_slugs = <<"b", "a">>
    /\ DOMAIN skipped_markets # {}

\* C27: the metadata built for a structured item has exactly the fields
\* question, description, status and tags; each holds the item's value, or ""
\* ([] for tags) when the item lacks the field; and it is built whichever of
\* the fields are missing.
C27_MetadataDefaults ==
    /\ [](output.called =>
            /\ DOMAIN output.value = {"question", "description", "status", "tags"}
            /\ output.value.question =
                  (IF input.question = None THEN "" ELSE input.question)
            /\ output.value.description =
                  (IF input.description = None THEN "" ELSE input.description)
            /\ output.value.status =
                  (IF input.status = None THEN "" ELSE input.status)
            /\ output.value.tags =
                  (IF input.tags = NoTags THEN <<>> ELSE input.tags))
    /\ [](~output.called => ENABLED Extract)

\* C27 (witness): the metadata of an item that has a status and lacks its
\* question, description and tags.
C27_Witness ==
    /\ output.called
    /\ input.question = None /\ input.description = None
    /\ input.tags = NoTags /\ input.status = "active"
    /\ output.value =
          [question |-> "", description |-> "", status |-> "active", tags |-> <<>>]

\* C28: when an accepted item carries a slug that is already a key of the
\* accepted map, the run does not raise because of it: the item is accepted
\* like any other, the entry of that slug now holds this item's metadata, and
\* the other entries are left as they were.
C28_LastWriteWins ==
    [][\A market \in RawItems :
          (market.slug # None /\ market.condition_id # None
              /\ market.slug \in DOMAIN markets_data /\ Classifies(market)) =>
              /\ DOMAIN markets_data' = DOMAIN markets_data
              /\ markets_data'[market.slug] = [metadata |-> ExtractMetadata(market)]
              /\ \A k \in DOMAIN markets_data \ {market.slug} :
                    markets_data'[k] = markets_data[k]
              /\ count' = count + 1
              /\ outcome'.kind = "raised" => outcome'.cause = "OSError"
              /\ (items_left > 1 /\ count' < limit) => pc' = "processing"]_vars

\* C28 (witness): slug "a" was accepted twice, the second time without a
\* question, and the run returned and wrote the entry of the second item.
C28_Witness ==
    /\ Done /\ outcome.kind = "returned"
    /\ market_slugs = <<"a", "a">>
    /\ markets_data["a"].metadata.question = ""
    /\ files.metadata_file = CompleteFile(markets_data)

C29_FailedLookupRaises ==
    failed_lookups # {} => (phase = "done" /\ output.raised)

CompleteEntry(e) == {"timestamp", "price", "outcome"} \subseteq DOMAIN e

\* C30: process_market_data returns one record per market of the response,
\* in the order of the response; every record has the fields id, question,
\* category, is_resolved and volume, holding the market's value or the default
\* ("unknown", "unknown", "unknown", False, "0"); and its historical prices
\* are the entries of the market that have all of timestamp, price and
\* outcome, reduced to these three fields, and no others.
C30_OneRecordPerMarket ==
    /\ [](output.called =>
          LET markets == IF "data" \in DOMAIN input /\ "markets" \in DOMAIN input.data
                         THEN input.data.markets ELSE <<>>
              records == output.value
          IN  /\ ~output.raised
              /\ DOMAIN records = DOMAIN markets
              /\ \A i \in DOMAIN markets :
                    LET m == markets[i]
                        r == records[i]
                        raw_prices == IF "historicalPrices" \in DOMAIN m
                                      THEN m.historicalPrices ELSE <<>>
                        kept == {j \in DOMAIN raw_prices : CompleteEntry(raw_prices[j])}
                    IN  /\ {"id", "question", "category", "is_resolved", "volume"}
                              \subseteq DOMAIN r
                        /\ r.id = (IF "id" \in DOMAIN m THEN m.id ELSE "unknown")
                        /\ r.question =
                              (IF "question" \in DOMAIN m THEN m.question ELSE "unknown")
                        /\ r.category =
                              (IF "category" \in DOMAIN m THEN m.category ELSE "unknown")
                        /\ r.is_resolved =
                              (IF "isResolved" \in DOMAIN m THEN m.isResolved ELSE FALSE)
                        /\ r.volume = (IF "volume" \in DOMAIN m THEN m.volume ELSE "0")
                        /\ Len(r.historical_prices) = Cardinality(kept)
                        /\ \A k \in DOMAIN r.historical_prices :
                              /\ DOMAIN r.historical_prices[k] =
                                    {"timestamp", "price", "outcome"}
                              /\ \E j \in kept :
                                    \A f \in {"timestamp", "price", "outcome"} :
                                        r.historical_prices[k][f] = raw_prices[j][f])
    /\ [](~output.called => ENABLED Process)

\* C30 (witness): a response of two markets, the first with no field at all
\* and the second with all of them and two price entries, one of which lacks
\* its outcome; two records came back, the second with one price entry.
C30_Witness ==
    /\ output.called
    /\ Len(output.value) = 2
    /\ DOMAIN input.data.markets[1] = {}
    /\ output.value[1].id = "unknown"
    /\ output.value[1].volume = "0"
    /\ output.value[2].id = "1"
    /\ Len(input.data.markets[2].historicalPrices) = 2
    /\ Len(output.value[2].historical_prices) = 1

\* The accumulators as lines 58-61 set them, before any item is classified.
FreshAccumulators ==
    [markets_data |-> EmptyMap, market_slugs |-> <<>>, skipped_markets |-> EmptyMap,
     count |-> 0, stopped |-> FALSE, error |-> None]

\* What an iteration did with `market`, read off the accumulators before and
\* after it: the variant, and the identifier and record it stored.
Outcome(before, after, market) ==
    IF after.count = before.count + 1
    THEN [variant |-> "accepted",
          slug |-> after.market_slugs[Len(after.market_slugs)],
          record |-> after.markets_data[after.market_slugs[Len(after.market_slugs)]]]
    ELSE IF market.slug \in DOMAIN after.skipped_markets
            /\ after.skipped_markets[market.slug].market_data = market
    THEN [variant |-> "skipped", slug |-> market.slug,
          record |-> after.skipped_markets[market.slug]]
    ELSE [variant |-> "dropped", slug |-> None, record |-> None]

SameOutcome(o1, o2) ==
    /\ o1.variant = o2.variant
    /\ o1.slug = o2.slug
    /\ o1.record = o2.record

\* C31: an item the loop classifies below the limit has the outcome, variant
\* and content, that the same item has when it is the first item of a run,
\* whatever was accepted or skipped before it; and the outcome is the one its
\* own fields fix: dropped without a slug, skipped under its slug without a
\* condition_id, accepted under its slug with its metadata otherwise.
C31_ClassificationPure ==
    [][\A market \in RawItems :
          Classifies(market) =>
              LET here == Outcome(Accumulated, Accumulated', market)
                  first == Outcome(FreshAccumulators,
                                   ProcessItem(FreshAccumulators, market, limit), market)
              IN  /\ SameOutcome(here, first)
                  /\ here.variant =
                        (IF market.slug = None THEN "dropped"
                         ELSE IF market.condition_id = None THEN "skipped"
                         ELSE "accepted")]_vars

\* C31 (witness): slug "a" was skipped, then accepted from an item with a
\* condition_id, and "b" was accepted after it: each item was classified by
\* its own fields.
C31_Witness ==
    /\ count = 2
    /\ market_slugs = <<"a", "b">>
    /\ "a" \in DOMAIN skipped_markets
    /\ markets_data["a"] = [metadata |-> ExtractMetadata(
                                [shape |-> "dict", slug |-> "a", condition_id |-> "0xc",
                                 question |-> "q1", description |-> None,
                                 status |-> None, tags |-> NoTags])]

\* The lookup recorded in `lookup` is the one in progress.
LookupInProgress == phase = lookup.kind /\ lookup.index = market_index

\* C32: a lookup issues at most lookup_max_retries requests; every wait
\* between its attempts is lookup_retry_delay, the first as the last; while
\* it is in progress every request so far has failed and was followed by one
\* wait; once it has ended, by a result or by its last failure, it has waited
\* one time less than it has issued requests, so no wait follows the last
\* attempt, and a lookup that failed for good has issued exactly
\* lookup_max_retries requests.
C32_LookupFixedDelay ==
    /\ lookup.requests <= lookup_max_retries
    /\ \A i \in DOMAIN lookup.sleeps : lookup.sleeps[i] = lookup_retry_delay
    /\ IF LookupInProgress
       THEN /\ lookup.requests = attempt
            /\ Len(lookup.sleeps) = attempt
            /\ attempt < lookup_max_retries
       ELSE lookup.kind # None => Len(lookup.sleeps) = lookup.requests - 1
    /\ \A f \in failed_lookups :
          (lookup.index = f[1] /\ lookup.kind = f[2]) =>
              (lookup.requests = lookup_max_retries
                  /\ Len(lookup.sleeps) = lookup_max_retries - 1)

\* C32 (witness): a trade lookup failed for good after three requests and two
\* waits of the same length.
C32_Witness ==
    /\ lookup.kind = "trade"
    /\ <<lookup.index, "trade">> \in failed_lookups
    /\ lookup.requests = 3
    /\ lookup.sleeps = <<lookup_retry_delay, lookup_retry_delay>>

PlainHexKey(pk) ==
    /\ pk.type = "str"
    /\ Len(pk.chars) = key_length
    /\ \A i \in DOMAIN pk.chars : pk.chars[i] \in HexDigits

\* C34 (as claimed): validate_pk returns True exactly for the strings of
\* key_length hexadecimal digits, and False for everything else: another
\* length, a "0x" prefix, a sign, an underscore, a blank, the empty string, a
\* value that is not a string.
C34_ValidatePkExact ==
    output.called => (output.value <=> PlainHexKey(input))

\* C35: every HTTP request is issued for the page being fetched and carries
\* next_cursor as it is then; the requests of the first page carry the
\* initial cursor; a further request for the same page carries the cursor of
\* the one before it; and next_cursor changes only when a response is
\* received with status 200 and a JSON object, which sets it to the
\* response's next_cursor (the terminal cursor when it has none), so a later
\* page is requested with the cursor of the response before it.
C35_CursorThreading ==
    /\ [][requests' # requests =>
            /\ pc = "fetching"
            /\ requests'.page = page
            /\ requests'.cursor = next_cursor
            /\ requests'.page = 1 => requests'.cursor = initial_cursor
            /\ requests'.page = requests.page =>
                  (requests'.cursor = requests.cursor /\ requests'.n = requests.n + 1)]_vars
    /\ [][next_cursor' # next_cursor =>
            \E resp \in Responses :
                /\ resp.kind = "dict"
                /\ next_cursor' =
                      (IF resp.next_cursor = None THEN end_cursor ELSE resp.next_cursor)
                /\ AttemptOk(resp)]_vars
    /\ [][\A resp \in Responses :
            (pc = "fetching" /\ resp.kind = "dict" /\ resp.next_cursor # None
                /\ AttemptOk(resp)) => next_cursor' = resp.next_cursor]_vars

\* C35 (witness): the second page was requested twice with the cursor the
\* first response carried.
C35_Witness ==
    /\ requests.page = 2 /\ requests.n = 2
    /\ requests.cursor = "C1"
    /\ next_cursor = "C1"
    /\ waits # <<>>

\* C36: in every state of a run, between the iterations of the item loop as
\* at its end, count equals the length of market_slugs, markets_data has at
\* most count keys, count does not exceed the limit, and the keys of
\* markets_data are exactly the slugs market_slugs lists; and no step makes
\* count smaller.
C36_CountersAgree ==
    /\ [](/\ count = Len(market_slugs)
          /\ Cardinality(DOMAIN markets_data) <= count
          /\ count <= limit
          /\ DOMAIN markets_data = Range(market_slugs))
    /\ [][count' >= count]_vars

\* C36 (witness): slug "b" was accepted on two pages: with limit 2 the
\* counter and the list stand at 2 and the map has one key, while an item of
\* the page is still to come.
C36_Witness ==
    /\ pc = "processing" /\ items_left = 1
    /\ limit = 2 /\ count = 2
    /\ market_slugs = <<"b", "b">>
    /\ DOMAIN markets_data = {"b"}

\* C37 (as claimed): no slug is a key of both markets_data and
\* skipped_markets, in any state of a run, and no slug is a key of both the
\* accepted-records file and the skipped-markets file that a run starting in
\* an empty directory leaves.
C37_AcceptedSkippedDisjoint ==
    /\ DOMAIN markets_data \cap DOMAIN skipped_markets = {}
    /\ files_at_start = NoFiles =>
          DOMAIN files.metadata_file.content \cap DOMAIN files.skipped_file.content = {}
====
